---- MODULE Spec2Model ----
(***************************************************************************)
(* Model of the pbinfo client of tmaxmax/bmoisil: the HTML text helpers,   *)
(* the field extractor table, FindProblemByID and the two-phase test case  *)
(* retrieval of GetProblemTestCases.                                        *)
(*                                                                         *)
(* Go strings and byte slices are sequences of one-character strings.      *)
(* A slice that may be nil is a record [isNil, elems].  An *html.Node that *)
(* may be nil is a sequence of at most one node.  An error is the chain of *)
(* its fmt.Errorf("...%w") frames, outermost first; nil is the empty chain.*)
(***************************************************************************)
EXTENDS Integers, Sequences, FiniteSets, TLC

----------------------------------------------------------------------------
(* Bounds of the model *)

MaxRows == 2
MaxExamples == 3
MaxColumns == 10

----------------------------------------------------------------------------
(* Strings *)

WhiteSpace == {" ", "\t", "\n"}

RECURSIVE TrimLeft(_)
TrimLeft(s) ==
  IF s # <<>> /\ Head(s) \in WhiteSpace THEN TrimLeft(Tail(s)) ELSE s

RECURSIVE TrimRight(_)
TrimRight(s) ==
  IF s # <<>> /\ s[Len(s)] \in WhiteSpace
  THEN TrimRight(SubSeq(s, 1, Len(s) - 1))
  ELSE s

TrimSpace(s) == TrimRight(TrimLeft(s))

RECURSIVE SplitFrom(_, _, _, _)
SplitFrom(s, sep, cur, acc) ==
  IF s = <<>> THEN Append(acc, cur)
  ELSE IF Head(s) = sep THEN SplitFrom(Tail(s), sep, <<>>, Append(acc, cur))
  ELSE SplitFrom(Tail(s), sep, Append(cur, Head(s)), acc)

Split(s, sep) == SplitFrom(s, sep, <<>>, <<>>)

Digits == {"0", "1", "2", "3", "4", "5", "6", "7", "8", "9"}

DigitVal(c) ==
  CASE c = "0" -> 0 [] c = "1" -> 1 [] c = "2" -> 2 [] c = "3" -> 3
    [] c = "4" -> 4 [] c = "5" -> 5 [] c = "6" -> 6 [] c = "7" -> 7
    [] c = "8" -> 8 [] c = "9" -> 9

IsDigits(s) == s # <<>> /\ \A i \in 1..Len(s) : s[i] \in Digits

RECURSIVE DigitsVal(_, _)
DigitsVal(s, acc) ==
  IF s = <<>> THEN acc ELSE DigitsVal(Tail(s), 10 * acc + DigitVal(Head(s)))

(* strconv.Atoi: an optional sign and decimal digits; [ok, val], val = 0   *)
(* when the text is not a number.                                          *)
Atoi(s) ==
  LET signed == s # <<>> /\ Head(s) \in {"+", "-"}
      body == IF signed THEN Tail(s) ELSE s
  IN IF IsDigits(body)
     THEN [ok |-> TRUE,
           val |-> IF signed /\ Head(s) = "-" THEN 0 - DigitsVal(body, 0)
                   ELSE DigitsVal(body, 0)]
     ELSE [ok |-> FALSE, val |-> 0]

----------------------------------------------------------------------------
(* Parsed HTML trees *)

El(tag, attrs, kids) ==
  [Type |-> "ElementNode", Data |-> tag, Attr |-> attrs, Kids |-> kids]

Tx(s) == [Type |-> "TextNode", Data |-> s, Attr |-> <<>>, Kids |-> <<>>]

Reverse(s) == [i \in 1..Len(s) |-> s[Len(s) + 1 - i]]

(* One iteration of the loop of traverse.Depth after the visitor said      *)
(* continue: the top of the stack is popped and its children are pushed,   *)
(* last child first.  The top of the stack is the end of the sequence.     *)
DepthStep(stack) ==
  LET l == Len(stack)
      node == stack[l]
  IN SubSeq(stack, 1, l - 1) \o Reverse(node.Kids)

(* The nodes the visitor is called on, in call order, when the visitor     *)
(* returns false on its stopAt-th call (stopAt = 0: it never does).        *)
RECURSIVE DepthVisit(_, _, _)
DepthVisit(stack, visited, stopAt) ==
  IF Len(stack) = 0 THEN visited
  ELSE LET v == Append(visited, stack[Len(stack)])
       IN IF Len(v) = stopAt THEN v
          ELSE DepthVisit(DepthStep(stack), v, stopAt)

Depth(root, stopAt) == DepthVisit(<<root>>, <<>>, stopAt)

dashToEmpty(t) == IF t = <<"-">> THEN <<>> ELSE t

(* What the visitor of text writes for one node. *)
textOf(n) ==
  IF n.Type # "TextNode"
  THEN LET t == TrimSpace(n.Data) IN IF t # <<>> THEN t ELSE <<>>
  ELSE <<>>

RECURSIVE Concat(_)
Concat(ss) == IF ss = <<>> THEN <<>> ELSE Head(ss) \o Concat(Tail(ss))

text(n) ==
  LET visited == Depth(n, 0)
  IN Concat([i \in 1..Len(visited) |-> textOf(visited[i])])

(* cascadia Selector.MatchFirst for the selectors of one tag name with an  *)
(* optional attribute value: the node itself, then its children in order.  *)
Matches(n, sel) ==
  /\ n.Type = "ElementNode"
  /\ n.Data = sel.tag
  /\ (sel.key # "" =>
        \E i \in 1..Len(n.Attr) :
           n.Attr[i].Key = sel.key /\ n.Attr[i].Val = sel.val)

RECURSIVE MatchFirst(_, _)
RECURSIVE MatchFirstIn(_, _)
MatchFirst(n, sel) ==
  IF Matches(n, sel) THEN <<n>> ELSE MatchFirstIn(n.Kids, sel)
MatchFirstIn(kids, sel) ==
  IF kids = <<>> THEN <<>>
  ELSE LET m == MatchFirst(Head(kids), sel)
       IN IF m # <<>> THEN m ELSE MatchFirstIn(Tail(kids), sel)

selectorTextArea == [tag |-> <<"t","e","x","t","a","r","e","a">>, key |-> "", val |-> ""]
selectorAnchor == [tag |-> <<"a">>, key |-> "", val |-> ""]
selectorSpan == [tag |-> <<"s","p","a","n">>, key |-> "", val |-> ""]
selectorTotalMemory ==
  [tag |-> <<"s","p","a","n">>, key |-> "title", val |-> "Memorie total[a-breve]"]
selectorStackDimension ==
  [tag |-> <<"s","p","a","n">>, key |-> "title", val |-> "Dimensiunea stivei"]

childText(n, childSelector) ==
  LET child == MatchFirst(n, childSelector)
  IN IF child = <<>> THEN <<>> ELSE text(child[1])

RECURSIVE attrVal(_, _)
attrVal(attrs, attr) ==
  IF attrs = <<>> THEN ""
  ELSE IF Head(attrs).Key = attr THEN Head(attrs).Val
  ELSE attrVal(Tail(attrs), attr)

childAttr(n, childSelector, attr) ==
  LET child == MatchFirst(n, childSelector)
  IN IF child = <<>> THEN "" ELSE attrVal(child[1].Attr, attr)

----------------------------------------------------------------------------
(* Values *)

NilSlice == [isNil |-> TRUE, elems |-> <<>>]

Slice(s) == [isNil |-> FALSE, elems |-> s]

NoID == 0 - 1

NoURL == [path |-> "", id |-> NoID]

NoErr == <<>>

Frame(msg, url, id) == [msg |-> msg, url |-> url, id |-> id]

(* fmt.Errorf with a %w verb: a new frame around err *)
Wrap(msg, url, id, err) == <<Frame(msg, url, id)>> \o err

(* fmt.Errorf without a %w verb, and the errors of the libraries *)
NewErr(msg, url, id) == <<Frame(msg, url, id)>>

(* the zero TestCase *)
ZeroTestCase ==
  [Input |-> NilSlice, Output |-> NilSlice, IsExample |-> FALSE, Score |-> 0]

ProblemURL(id) == [path |-> "https://www.pbinfo.ro/probleme/", id |-> id]

ListingURL(id) ==
  [path |-> "https://www.pbinfo.ro/ajx-module/ajx-problema-afisare-teste.php?id=",
   id |-> id]

ChunkURL(href) == [path |-> href, id |-> NoID]

----------------------------------------------------------------------------
(* What the site may answer *)

ProblemIDs == {100, 1629}

(* The ways Client.request and the read of the body fail. *)
FailedFetches ==
  {[kind |-> "transport", cause |-> "network"],
   [kind |-> "transport", cause |-> "context canceled"],
   [kind |-> "status", cause |-> "404 Not Found"],
   [kind |-> "body", cause |-> "unexpected EOF"]}

s_td == <<"t", "d">>
s_a == <<"a">>
s_pre == <<"p", "r", "e">>
s_textarea == <<"t", "e", "x", "t", "a", "r", "e", "a">>
s_da == <<"d", "a">>

InHref == "/php/descarca-test.php?id=1&tip=in"
OutHref == "/php/descarca-test.php?id=1&tip=ok"
BadHref == "/php/descarca-test.php?id=%zz"
ValidHref(h) == h # BadHref

(* The body the site serves for a href: the two chunks (the expected       *)
(* output is an empty file) and, for the base address, its front page.     *)
ChunkBody(h) ==
  CASE h = InHref -> <<"7", "\n">>
    [] h = OutHref -> <<>>
    [] OTHER -> <<"<", "h", "t", "m", "l", ">">>

tdText(c) == El(s_td, <<>>, <<Tx(c)>>)
tdInline(c) == El(s_td, <<>>, <<El(s_textarea, <<>>, <<Tx(c)>>)>>)
tdLink(h) ==
  El(s_td, <<>>, <<El(s_a, <<[Key |-> "href", Val |-> h]>>, <<Tx(<<"i", "n">>)>>)>>)
tdEmpty == El(s_td, <<>>, <<>>)

(* The rows of a listing: the td cells of each table > tbody > tr. *)
RowChoices ==
  LET num == tdText(<<"1">>)
      score == tdText(<<"1", "0">>)
      yes == tdText(s_da)
      no == tdText(<<"-">>)
  IN {<<num, score, tdInline(<<"1", " ", "2">>), tdInline(<<"3">>), yes>>,
      <<num, score, tdLink(InHref), tdLink(OutHref), no>>,
      <<num, score, tdEmpty, tdInline(<<"5">>), no>>,
      <<num, score, tdInline(<<"5">>), tdLink(BadHref), no>>,
      <<num, score, tdInline(<<"5">>)>>,
      <<>>}

SeqsUpTo(S, n) == UNION {[1..k -> S] : k \in 0..n}

Listings == SeqsUpTo(RowChoices, MaxRows)

(* The p + pre matches of a problem page. *)
preOf(c) == El(s_pre, <<>>, <<Tx(c)>>)
ExampleChoices ==
  {preOf(<<"1", " ", "2">>),
   El(s_pre, <<>>, <<El(<<"b">>, <<>>, <<Tx(<<"3">>)>>), Tx(<<"\n">>)>>)}
ExampleLists == SeqsUpTo(ExampleChoices, MaxExamples)

----------------------------------------------------------------------------
(* State *)

VARIABLES
  pc,         \* where the GetProblemTestCases call is
  problemID,  \* its problemID argument
  ctxDone,    \* the caller's context has been cancelled or has timed out
  listing,    \* the answer to the listing request
  testCases,  \* testCases of getProblemFullTestCases
  urls,       \* urls of getProblemFullTestCases
  task,       \* the state of the errgroup task of each url
  gerr,       \* the error kept by the errgroup (the first one)
  gctxDone,   \* the context of the errgroup has been cancelled
  phaseA,     \* what getProblemFullTestCases returned
  page,       \* the answer to the problem page request of the examples
  phaseB,     \* what getProblemExampleTestCases returned
  result,     \* what GetProblemTestCases returned
  fails,      \* the error of the first task that failed, and whether a later
              \* one failed on the cancelled context of the group
  reqs        \* the requests sent so far through Client.request

tcVars ==
  <<pc, problemID, ctxDone, listing, testCases, urls, task, gerr, gctxDone,
    phaseA, page, phaseB, result, fails, reqs>>

VARIABLES
  fpc,        \* where the FindProblemByID call is
  fid,        \* its id argument
  fpage,      \* the answer to its problem page request
  prob,       \* p of FindProblemByID: no element before line 571
  fresult,    \* what FindProblemByID returned
  freqs       \* the requests it sent through Client.request

findVars == <<fpc, fid, fpage, prob, fresult, freqs>>

VARIABLES
  pure,       \* the last application of a function without state
  walk,       \* the run of traverse.Depth: its tree, stack and visits
  client,     \* a Client and the goroutines that call Client.request on it
  registry    \* the compilers and debuggers of package toolchain, the last
              \* registration and the last DetectDebuggers

auxVars == <<pure, walk, client, registry>>

NoResult == [set |-> FALSE, cases |-> NilSlice, err |-> NoErr]

Result(cases, err) == [set |-> TRUE, cases |-> cases, err |-> err]

NoAnswer == [status |-> "none", nodes |-> <<>>]

----------------------------------------------------------------------------
(* Client.request and Client.requestHTML *)

(* The error of Client.request for a failed exchange. *)
requestErr(f, url) ==
  IF f.kind = "transport"
  THEN Wrap("failed to do request to", url, NoID, NewErr(f.cause, NoURL, NoID))
  ELSE NewErr("error response from", url, NoID)

(* The error of Client.requestHTML: that of request, or that of html.Parse *)
(* when the body cannot be read.                                           *)
requestHTMLErr(f, url) ==
  IF f.kind = "body"
  THEN Wrap("failed to parse response body for", url, NoID,
            NewErr(f.cause, NoURL, NoID))
  ELSE requestErr(f, url)

(* A cancellation error needs a cancelled context. *)
CanFail(f, done) == f.cause = "context canceled" => done

----------------------------------------------------------------------------
(* getProblemFullTestCases: the rows of the listing *)

(* Faulty variant of parseColumn: every url is given the index of the      *)
(* first row.                                                              *)
parseColumn_firstRow(i, col, index, st) ==
  LET content == childText(col, selectorTextArea)
  IN CASE i = 1 ->
            [st EXCEPT !.t.Score = Atoi(text(col)).val]
       [] i \in {2, 3} ->
            IF content = <<>>
            THEN [st EXCEPT !.urls =
                    Append(@, [index |-> 0,
                               href |-> childAttr(col, selectorAnchor, "href"),
                               input |-> i = 2])]
            ELSE IF i = 2
            THEN [st EXCEPT !.t.Input = Slice(content)]
            ELSE [st EXCEPT !.t.Output = Slice(content)]
       [] i = 4 ->
            IF dashToEmpty(text(col)) = s_da
            THEN [st EXCEPT !.t.IsExample = TRUE]
            ELSE st
       [] OTHER -> st

(* The body of the loop over the columns of one row, for column i (from 0) *)
(* of the row that became testCases[index]: st is [t, urls].               *)
parseColumn(i, col, index, st) ==
  LET content == childText(col, selectorTextArea)
  IN CASE i = 1 ->
            [st EXCEPT !.t.Score = Atoi(text(col)).val]
       [] i \in {2, 3} ->
            IF content = <<>>
            THEN [st EXCEPT !.urls =
                    Append(@, [index |-> index,
                               href |-> childAttr(col, selectorAnchor, "href"),
                               input |-> i = 2])]
            ELSE IF i = 2
            THEN [st EXCEPT !.t.Input = Slice(content)]
            ELSE [st EXCEPT !.t.Output = Slice(content)]
       [] i = 4 ->
            IF dashToEmpty(text(col)) = s_da
            THEN [st EXCEPT !.t.IsExample = TRUE]
            ELSE st
       [] OTHER -> st

RECURSIVE parseColumns(_, _, _, _)
parseColumns(cols, i, index, st) ==
  IF i >= Len(cols) THEN st
  ELSE parseColumns(cols, i + 1, index, parseColumn(i, cols[i + 1], index, st))

(* The loop over the rows: acc is [testCases, urls]. *)
RECURSIVE parseRows(_, _)
parseRows(rows, acc) ==
  IF rows = <<>> THEN acc
  ELSE LET index == Len(acc.testCases)
           st == parseColumns(Head(rows), 0, index,
                              [t |-> ZeroTestCase, urls |-> acc.urls])
       IN parseRows(Tail(rows),
                    [testCases |-> Append(acc.testCases, st.t), urls |-> st.urls])

(* Faulty variant of groupFail: the last error is kept. *)
groupFail_keepsLast(e) ==
  /\ gerr' = e
  /\ gctxDone' = TRUE

(* errgroup.Group: the first error is kept and cancels the group context *)
groupFail(e) ==
  /\ gerr' = IF gerr = NoErr THEN e ELSE gerr
  /\ gctxDone' = TRUE

(* The error a failed chunk download returns from its task. *)
chunkErr(f, url) ==
  IF f.kind = "body"
  THEN Wrap("request failed for", url, NoID, NewErr(f.cause, NoURL, NoID))
  ELSE Wrap("request failed for", url, NoID, requestErr(f, url))

(* Faulty variant of Complete: only the input is looked at. *)
Complete_inputOnly(c) == ~c.Input.isNil

Complete(c) == ~c.Input.isNil /\ ~c.Output.isNil

(* Faulty variant of fullTestCasesResult: a failed download counts as a missing *)
(* side of a row.                                                          *)
fullTestCasesResult_noErr(cases, err, id) ==
  IF err # NoErr \/ \E i \in 1..Len(cases) : ~Complete(cases[i])
  THEN Result(NilSlice, NoErr)
  ELSE Result(Slice(cases), NoErr)

(* What getProblemFullTestCases returns once g.Wait has returned err. *)
fullTestCasesResult(cases, err, id) ==
  IF err # NoErr
  THEN Result(NilSlice,
              Wrap("failed to retrieve test cases for problem with ID", NoURL, id, err))
  ELSE IF \E i \in 1..Len(cases) : ~Complete(cases[i])
  THEN Result(NilSlice, NoErr)
  ELSE Result(Slice(cases), NoErr)

----------------------------------------------------------------------------
(* getProblemExampleTestCases *)

examplesContentOf(matches) == [i \in 1..Len(matches) |-> text(matches[i])]

(* Faulty variant of exampleTestCases: a last chunk without partner is dropped. *)
exampleTestCases_dropsLast(examplesContent, id) ==
  Result(Slice([i \in 1..(Len(examplesContent) \div 2) |->
                  [Input |-> Slice(examplesContent[2 * (i - 1) + 1]),
                   Output |-> Slice(examplesContent[2 * (i - 1) + 2]),
                   IsExample |-> TRUE,
                   Score |-> 0]]),
         NoErr)

exampleTestCases(examplesContent, id) ==
  IF Len(examplesContent) % 2 # 0
  THEN Result(NilSlice,
              NewErr("failed to retrieve examples for problem with ID: incomplete data",
                     NoURL, id))
  ELSE Result(Slice([i \in 1..(Len(examplesContent) \div 2) |->
                       [Input |-> Slice(examplesContent[2 * (i - 1) + 1]),
                        Output |-> Slice(examplesContent[2 * (i - 1) + 2]),
                        IsExample |-> TRUE,
                        Score |-> 0]]),
              NoErr)

----------------------------------------------------------------------------
(* GetProblemTestCases *)

(* Faulty variant of wrapResult: the error of the phase is dropped. *)
wrapResult_dropsErr(r) == Result(r.cases, NoErr)

(* What GetProblemTestCases does with the return of a phase: it returns    *)
(* the wrapped error, or the cases.                                        *)
wrapResult(r) ==
  IF r.err # NoErr
  THEN Result(NilSlice, Wrap("pbinfo:", NoURL, NoID, r.err))
  ELSE Result(r.cases, NoErr)

(* Faulty variants of triesExamples: the error is not looked at; the      *)
(* number of cases is not looked at.                                        *)
triesExamples_ignoresErr(r) == Len(r.cases.elems) = 0

triesExamples_ignoresCases(r) == r.err = NoErr

(* After getProblemFullTestCases: TRUE when the examples are tried. *)
triesExamples(r) == r.err = NoErr /\ Len(r.cases.elems) = 0

----------------------------------------------------------------------------
(* More of strconv, strings and go-units.  Letters with a diacritic are    *)
(* the one-character strings "a-breve", "a-circ", "i-circ", "s-comma" and  *)
(* "t-comma" (capitals: "A-breve", ...).                                   *)

UpperChars ==
  <<"A", "B", "C", "D", "E", "F", "G", "H", "I", "J", "K", "L", "M", "N", "O",
    "P", "Q", "R", "S", "T", "U", "V", "W", "X", "Y", "Z",
    "A-breve", "A-circ", "I-circ", "S-comma", "T-comma">>

LowerChars ==
  <<"a", "b", "c", "d", "e", "f", "g", "h", "i", "j", "k", "l", "m", "n", "o",
    "p", "q", "r", "s", "t", "u", "v", "w", "x", "y", "z",
    "a-breve", "a-circ", "i-circ", "s-comma", "t-comma">>

ToLowerChar(c) ==
  IF \E k \in 1..Len(UpperChars) : UpperChars[k] = c
  THEN LowerChars[CHOOSE k \in 1..Len(UpperChars) : UpperChars[k] = c]
  ELSE c

ToLower(s) == [k \in 1..Len(s) |-> ToLowerChar(s[k])]

(* Faulty variant of asciiReplacer: the s with a comma below is kept. *)
asciiReplacer_keepsS(s) ==
  [k \in 1..Len(s) |->
     CASE s[k] = "a-breve" -> "a"
       [] s[k] = "a-circ" -> "a"
       [] s[k] = "i-circ" -> "i"
       [] s[k] = "t-comma" -> "t"
       [] OTHER -> s[k]]

asciiReplacer(s) ==
  [k \in 1..Len(s) |->
     CASE s[k] = "a-breve" -> "a"
       [] s[k] = "a-circ" -> "a"
       [] s[k] = "i-circ" -> "i"
       [] s[k] = "s-comma" -> "s"
       [] s[k] = "t-comma" -> "t"
       [] OTHER -> s[k]]

(* strconv.ParseFloat on the decimal notation without exponent: the sign,  *)
(* the digits before the point and the digits after it.                    *)
ParseFloat(s) ==
  LET signed == s # <<>> /\ Head(s) \in {"+", "-"}
      body == IF signed THEN Tail(s) ELSE s
      parts == Split(body, ".")
      ip == parts[1]
      fp == IF Len(parts) = 2 THEN parts[2] ELSE <<>>
      ok == /\ Len(parts) <= 2
            /\ ip \o fp # <<>>
            /\ \A k \in 1..Len(ip) : ip[k] \in Digits
            /\ \A k \in 1..Len(fp) : fp[k] \in Digits
  IN [ok |-> ok,
      neg |-> signed /\ Head(s) = "-",
      ip |-> IF ok THEN ip ELSE <<>>,
      fp |-> IF ok THEN fp ELSE <<>>]

(* The integer part of f * 10^k: the conversion of the product to int64    *)
(* or to time.Duration truncates.                                          *)
Scaled(f, k) ==
  LET padded == f.fp \o [j \in 1..k |-> "0"]
      v == DigitsVal(f.ip \o SubSeq(padded, 1, k), 0)
  IN IF f.neg THEN 0 - v ELSE v

RECURSIVE LastIndexAny(_, _)
LastIndexAny(s, chars) ==
  IF s = <<>> THEN 0
  ELSE IF s[Len(s)] \in chars THEN Len(s)
  ELSE LastIndexAny(SubSeq(s, 1, Len(s) - 1), chars)

(* Faulty variant of DecimalExp: kilo and mega are exchanged. *)
DecimalExp_swapped(c) ==
  CASE c = "k" -> 6 [] c = "m" -> 3 [] c = "g" -> 9 [] c = "t" -> 12
    [] c = "p" -> 15 [] OTHER -> 0 - 1

(* The decimal exponents of the unit letters of go-units. *)
DecimalExp(c) ==
  CASE c = "k" -> 3 [] c = "m" -> 6 [] c = "g" -> 9 [] c = "t" -> 12
    [] c = "p" -> 15 [] OTHER -> 0 - 1

(* units.FromHumanSize: [ok, val] *)
FromHumanSize(sizeStr) ==
  LET sep == LastIndexAny(sizeStr, Digits \cup {".", " "})
      num == IF sep = 0 THEN <<>>
             ELSE IF sizeStr[sep] # " " THEN SubSeq(sizeStr, 1, sep)
             ELSE SubSeq(sizeStr, 1, sep - 1)
      sfx == IF sep = 0 THEN <<>>
             ELSE ToLower(SubSeq(sizeStr, sep + 1, Len(sizeStr)))
      size == ParseFloat(num)
      bad == [ok |-> FALSE, val |-> 0 - 1]
  IN IF sep = 0 \/ ~size.ok \/ size.neg THEN bad
     ELSE IF Len(sfx) = 0 THEN [ok |-> TRUE, val |-> Scaled(size, 0)]
     ELSE IF Len(sfx) > 3 THEN bad
     ELSE IF sfx[1] = "b"
     THEN IF Len(sfx) > 1 THEN bad ELSE [ok |-> TRUE, val |-> Scaled(size, 0)]
     ELSE IF DecimalExp(sfx[1]) < 0 THEN bad
     ELSE IF Len(sfx) = 2 /\ sfx[2] # "b" THEN bad
     ELSE IF Len(sfx) = 3 /\ (sfx[2] # "i" \/ sfx[3] # "b") THEN bad
     ELSE [ok |-> TRUE, val |-> Scaled(size, DecimalExp(sfx[1]))]

----------------------------------------------------------------------------
(* Problem and the field extractor table *)

Unknown == 0
Easy == 1
Medium == 2
Difficult == 3
Contest == 4

ParseProblemDifficulty(input) ==
  LET t == asciiReplacer(ToLower(input))
  IN CASE t \in {<<"e", "a", "s", "y">>,
                  <<"u", "s", "o", "a", "r", "a">>,
                  <<"u", "s", "o", "r">>} -> Easy
       [] t \in {<<"m", "e", "d", "i", "u", "m">>,
                  <<"m", "e", "d", "i", "e">>,
                  <<"m", "e", "d", "i", "u">>} -> Medium
       [] t \in {<<"d", "i", "f", "f", "i", "c", "u", "l", "t">>,
                  <<"d", "i", "f", "i", "c", "i", "l", "a">>,
                  <<"d", "i", "f", "i", "c", "i", "l">>} -> Difficult
       [] t \in {<<"c", "o", "n", "t", "e", "s", "t">>,
                  <<"c", "o", "n", "c", "u", "r", "s">>} -> Contest
       [] OTHER -> Unknown

NilInt == [isNil |-> TRUE, val |-> 0]

IntPtr(v) == [isNil |-> FALSE, val |-> v]

(* &Problem{ID: id} *)
NewProblem(id) ==
  [ID |-> id, Name |-> <<>>, Publisher |-> <<>>, Grade |-> 0,
   Input |-> <<>>, Output |-> <<>>, MaxTime |-> 0,
   MaxMemoryBytes |-> 0, MaxStackBytes |-> 0, Source |-> <<>>,
   Authors |-> NilSlice, Difficulty |-> Unknown, Score |-> NilInt]

(* Faulty variant of parseMemoryLimit: the error of FromHumanSize is not checked. *)
parseMemoryLimit_unchecked(input, output) == FromHumanSize(input).val

(* parseMemoryLimit: the new value of *output *)
parseMemoryLimit(input, output) ==
  LET mem == FromHumanSize(input)
  IN IF mem.ok THEN mem.val ELSE output

s_tastatura == <<"t", "a", "s", "t", "a", "t", "u", "r", "a-breve">>
s_ecran == <<"e", "c", "r", "a", "n">>

parserPublisher(n, p) == [p EXCEPT !.Publisher = childText(n, selectorSpan)]

(* Faulty variant of parserGrade: the number is stored in the wrong field. *)
parserGrade_intoID(n, p) == [p EXCEPT !.ID = Atoi(dashToEmpty(text(n))).val]

parserGrade(n, p) == [p EXCEPT !.Grade = Atoi(dashToEmpty(text(n))).val]

parserInputOutput(n, p) ==
  LET inout == Split(childText(n, selectorSpan), "/")
  IN IF Len(inout) # 2 THEN [p EXCEPT !.Input = <<"-">>]
     ELSE LET in == TrimSpace(inout[1])
              out == TrimSpace(inout[2])
          IN IF in = s_tastatura \/ out = s_ecran
             THEN [p EXCEPT !.Input = <<"-">>]
             ELSE [p EXCEPT !.Input = in, !.Output = out]

parserTimeLimit(n, p) ==
  LET split == Split(dashToEmpty(text(n)), " ")
      rawTime == ParseFloat(split[1])
  IN IF Len(split) < 1 THEN p
     ELSE IF ~rawTime.ok THEN p
     ELSE [p EXCEPT !.MaxTime = Scaled(rawTime, 9)]

parserMemoryLimits(n, p) ==
  [p EXCEPT
     !.MaxMemoryBytes =
        parseMemoryLimit(childText(n, selectorTotalMemory), p.MaxMemoryBytes),
     !.MaxStackBytes =
        parseMemoryLimit(childText(n, selectorStackDimension), p.MaxStackBytes)]

parserSource(n, p) ==
  LET t == dashToEmpty(text(n))
  IN IF t # <<>> THEN [p EXCEPT !.Source = t] ELSE p

parserAuthors(n, p) ==
  LET t == dashToEmpty(text(n))
      parts == Split(t, ",")
  IN IF t = <<>> THEN p
     ELSE [p EXCEPT !.Authors = Slice([k \in 1..Len(parts) |-> TrimSpace(parts[k])])]

parserDifficulty(n, p) ==
  [p EXCEPT !.Difficulty = ParseProblemDifficulty(dashToEmpty(text(n)))]

parserScore(n, p) ==
  LET t == dashToEmpty(text(n))
  IN IF t = <<>> THEN p ELSE [p EXCEPT !.Score = IntPtr(Atoi(t).val)]

(* parsers[i](n, p), for i from 0 *)
parsers(i, n, p) ==
  CASE i = 0 -> parserPublisher(n, p)
    [] i = 1 -> parserGrade(n, p)
    [] i = 2 -> parserInputOutput(n, p)
    [] i = 3 -> parserTimeLimit(n, p)
    [] i = 4 -> parserMemoryLimits(n, p)
    [] i = 5 -> parserSource(n, p)
    [] i = 6 -> parserAuthors(n, p)
    [] i = 7 -> parserDifficulty(n, p)
    [] i = 8 -> parserScore(n, p)

(* Faulty variant of runParsers: the last column is left out. *)
RECURSIVE runParsers_skipsLast(_, _, _)
runParsers_skipsLast(columns, i, p) ==
  IF i + 1 >= Len(columns) THEN p
  ELSE runParsers_skipsLast(columns, i + 1, parsers(i, columns[i + 1], p))

(* The loop of lines 572 to 574 from column i on. *)
RECURSIVE runParsers(_, _, _)
runParsers(columns, i, p) ==
  IF i >= Len(columns) THEN p
  ELSE runParsers(columns, i + 1, parsers(i, columns[i + 1], p))

----------------------------------------------------------------------------
(* The steps of a GetProblemTestCases call *)

(* The call: line 591 enters getProblemFullTestCases, which sends the      *)
(* listing request.                                                        *)
Call(id) ==
  /\ UNCHANGED <<findVars, auxVars, fails>>  /\ pc = "idle"
  /\ pc' = "A_request"
  /\ problemID' = id
  /\ reqs' = [reqs EXCEPT !.listing = @ + 1]
  /\ UNCHANGED <<ctxDone, listing, testCases, urls, task, gerr, gctxDone,
                 phaseA, page, phaseB, result>>

(* Faulty variant of ListingFail: a failed listing request is sent again   *)
(* once.                                                                   *)
ListingFail_retries(f) ==
  /\ UNCHANGED <<findVars, auxVars, fails>>  /\ pc = "A_request"
  /\ CanFail(f, ctxDone)
  /\ IF reqs.listing < 2
     THEN /\ reqs' = [reqs EXCEPT !.listing = @ + 1]
          /\ UNCHANGED <<listing, phaseA, pc>>
     ELSE /\ listing' = [status |-> f.kind, nodes |-> <<>>]
          /\ phaseA' = Result(NilSlice, requestHTMLErr(f, ListingURL(problemID)))
          /\ pc' = "A_return"
          /\ UNCHANGED reqs
  /\ UNCHANGED <<problemID, ctxDone, testCases, urls, task, gerr, gctxDone,
                 page, phaseB, result>>

(* requestHTML of the listing fails: getProblemFullTestCases returns it. *)
ListingFail(f) ==
  /\ UNCHANGED <<findVars, auxVars, fails>>  /\ pc = "A_request"
  /\ CanFail(f, ctxDone)
  /\ listing' = [status |-> f.kind, nodes |-> <<>>]
  /\ phaseA' = Result(NilSlice, requestHTMLErr(f, ListingURL(problemID)))
  /\ pc' = "A_return"
  /\ UNCHANGED <<problemID, ctxDone, testCases, urls, task, gerr, gctxDone,
                 page, phaseB, result, reqs>>

(* The listing arrives: the rows are parsed; without rows the phase        *)
(* returns (nil, nil), otherwise one task per url is handed to the group.  *)
ListingOK(rows) ==
  /\ UNCHANGED <<findVars, auxVars, fails>>  /\ pc = "A_request"
  /\ listing' = [status |-> "ok", nodes |-> rows]
  /\ LET parsed == parseRows(rows, [testCases |-> <<>>, urls |-> <<>>])
     IN /\ testCases' = parsed.testCases
        /\ urls' = parsed.urls
        /\ IF Len(parsed.testCases) = 0
           THEN /\ phaseA' = Result(NilSlice, NoErr)
                /\ pc' = "A_return"
                /\ UNCHANGED <<task, reqs>>
           ELSE /\ phaseA' = phaseA
                /\ pc' = "A_wait"
                /\ task' = [i \in 1..Len(parsed.urls) |-> "new"]
                /\ reqs' = [reqs EXCEPT !.chunk = [i \in 1..Len(parsed.urls) |-> 0]]
  /\ UNCHANGED <<problemID, ctxDone, gerr, gctxDone, page, phaseB, result>>

(* A task builds its request and sends it; a href that is no URL makes     *)
(* http.NewRequestWithContext fail and the task returns that error.        *)
TaskStart(i) ==
  /\ UNCHANGED <<findVars, auxVars>>  /\ pc = "A_wait"
  /\ i \in 1..Len(urls)
  /\ task[i] = "new"
  /\ IF ValidHref(urls[i].href)
     THEN /\ task' = [task EXCEPT ![i] = "inflight"]
          /\ reqs' = [reqs EXCEPT !.chunk[i] = @ + 1]
          /\ UNCHANGED <<gerr, gctxDone, fails>>
     ELSE /\ task' = [task EXCEPT ![i] = "failed"]
          /\ groupFail(NewErr("invalid URL", ChunkURL(urls[i].href), NoID))
          /\ fails' = IF \A j \in 1..Len(task) : task[j] # "failed"
                      THEN [fails EXCEPT !.first =
                              NewErr("invalid URL", ChunkURL(urls[i].href), NoID)]
                      ELSE fails
          /\ UNCHANGED reqs
  /\ UNCHANGED <<pc, problemID, ctxDone, listing, testCases, urls, phaseA,
                 page, phaseB, result>>

(* The download of a task fails: in request or in io.ReadAll. *)
TaskFail(i, f) ==
  /\ UNCHANGED <<findVars, auxVars>>  /\ pc = "A_wait"
  /\ i \in 1..Len(urls)
  /\ task[i] = "inflight"
  /\ CanFail(f, gctxDone)
  /\ task' = [task EXCEPT ![i] = "failed"]
  /\ groupFail(chunkErr(f, ChunkURL(urls[i].href)))
  /\ fails' = IF \A j \in 1..Len(task) : task[j] # "failed"
              THEN [fails EXCEPT !.first = chunkErr(f, ChunkURL(urls[i].href))]
              ELSE [fails EXCEPT !.cancelled =
                      @ \/ (f.cause = "context canceled" /\ ~ctxDone)]
  /\ UNCHANGED <<pc, problemID, ctxDone, listing, testCases, urls, phaseA,
                 page, phaseB, result, reqs>>

(* The download of a task succeeds: data goes to the field of its row. *)
TaskOK(i) ==
  /\ UNCHANGED <<findVars, auxVars, fails>>  /\ pc = "A_wait"
  /\ i \in 1..Len(urls)
  /\ task[i] = "inflight"
  /\ task' = [task EXCEPT ![i] = "done"]
  /\ testCases' =
       IF urls[i].input
       THEN [testCases EXCEPT ![urls[i].index + 1].Input =
                                  Slice(ChunkBody(urls[i].href))]
       ELSE [testCases EXCEPT ![urls[i].index + 1].Output =
                                  Slice(ChunkBody(urls[i].href))]
  /\ UNCHANGED <<pc, problemID, ctxDone, listing, urls, gerr, gctxDone, phaseA,
                 page, phaseB, result, reqs>>

(* Faulty variant of Wait: it returns as soon as one task has failed. *)
Wait_onFirstError ==
  /\ UNCHANGED <<findVars, auxVars, fails>>  /\ pc = "A_wait"
  /\ \/ \A i \in 1..Len(urls) : task[i] \in {"done", "failed"}
     \/ \E i \in 1..Len(urls) : task[i] = "failed"
  /\ gctxDone' = TRUE
  /\ phaseA' = fullTestCasesResult(testCases, gerr, problemID)
  /\ pc' = "A_return"
  /\ UNCHANGED <<problemID, ctxDone, listing, testCases, urls, task, gerr,
                 page, phaseB, result, reqs>>

(* g.Wait returns when every task has returned; the rows are then checked. *)
Wait ==
  /\ UNCHANGED <<findVars, auxVars, fails>>  /\ pc = "A_wait"
  /\ \A i \in 1..Len(urls) : task[i] \in {"done", "failed"}
  /\ gctxDone' = TRUE
  /\ phaseA' = fullTestCasesResult(testCases, gerr, problemID)
  /\ pc' = "A_return"
  /\ UNCHANGED <<problemID, ctxDone, listing, testCases, urls, task, gerr,
                 page, phaseB, result, reqs>>

(* Lines 593 to 601: the error or the cases of the first phase are         *)
(* returned, or getProblemExampleTestCases sends the problem page request. *)
AfterFull ==
  /\ UNCHANGED <<findVars, auxVars, fails>>  /\ pc = "A_return"
  /\ IF triesExamples(phaseA)
     THEN /\ pc' = "B_request"
          /\ reqs' = [reqs EXCEPT !.page = @ + 1]
          /\ UNCHANGED result
     ELSE /\ pc' = "done"
          /\ result' = wrapResult(phaseA)
          /\ UNCHANGED reqs
  /\ UNCHANGED <<problemID, ctxDone, listing, testCases, urls, task, gerr,
                 gctxDone, phaseA, page, phaseB>>

(* requestHTML of the problem page fails. *)
PageFail(f) ==
  /\ UNCHANGED <<findVars, auxVars, fails>>  /\ pc = "B_request"
  /\ CanFail(f, ctxDone)
  /\ page' = [status |-> f.kind, nodes |-> <<>>]
  /\ phaseB' = Result(NilSlice, requestHTMLErr(f, ProblemURL(problemID)))
  /\ result' = wrapResult(phaseB')
  /\ pc' = "done"
  /\ UNCHANGED <<problemID, ctxDone, listing, testCases, urls, task, gerr,
                 gctxDone, phaseA, reqs>>

(* The problem page arrives with its p + pre matches. *)
PageOK(matches) ==
  /\ UNCHANGED <<findVars, auxVars, fails>>  /\ pc = "B_request"
  /\ page' = [status |-> "ok", nodes |-> matches]
  /\ phaseB' = exampleTestCases(examplesContentOf(matches), problemID)
  /\ result' = wrapResult(phaseB')
  /\ pc' = "done"
  /\ UNCHANGED <<problemID, ctxDone, listing, testCases, urls, task, gerr,
                 gctxDone, phaseA, reqs>>

(* The caller cancels its context, or its deadline passes; the context of  *)
(* the group is derived from it.                                           *)
CtxCancel ==
  /\ UNCHANGED <<findVars, auxVars, fails>>  /\ pc # "done"
  /\ ~ctxDone
  /\ ctxDone' = TRUE
  /\ gctxDone' = TRUE
  /\ UNCHANGED <<pc, problemID, listing, testCases, urls, task, gerr, phaseA,
                 page, phaseB, result, reqs>>

----------------------------------------------------------------------------
(* FindProblemByID *)

s_span == <<"s", "p", "a", "n">>

tdSpan(c) == El(s_td, <<>>, <<El(s_span, <<>>, <<Tx(c)>>)>>)

titled(title, c) ==
  El(s_span, <<[Key |-> "title", Val |-> title]>>, <<Tx(c)>>)

(* The cells the site may put in column i (from 0) of the metadata table:  *)
(* well-formed ones and malformed ones.                                    *)
ColumnChoices(i) ==
  CASE i = 0 -> {tdSpan(<<"B", "o", "b">>)}
    [] i = 1 -> {tdText(<<"\n", " ", "9", " ">>), tdText(<<"I", "X">>)}
    [] i = 2 -> {tdSpan(<<"a", ".", "i", "n", " ", "/", " ", "a", ".", "o", "u", "t">>),
                 tdSpan(s_tastatura \o <<" ", "/", " ">> \o s_ecran)}
    [] i = 3 -> {tdText(<<"0", ".", "1", " ", "s">>), tdText(<<"f", "a", "s", "t">>)}
    [] i = 4 -> {El(s_td, <<>>,
                    <<titled("Memorie total[a-breve]", <<"6", "4", " ", "M", "B">>),
                      Tx(<<" ", "/", " ">>),
                      titled("Dimensiunea stivei", <<"8", " ", "M", "B">>)>>),
                 El(s_td, <<>>,
                    <<titled("Memorie total[a-breve]", <<"6", "4", " ", "M", "o">>),
                      titled("Dimensiunea stivei", <<"?">>)>>)}
    [] i = 5 -> {tdText(<<"-">>)}
    [] i = 6 -> {tdText(<<"A", ",", " ", "B">>)}
    [] i = 7 -> {tdText(<<"u", "s-comma", "o", "a", "r", "a-breve">>),
                 tdText(<<"g", "r", "e", "a", "\n">>)}
    [] i = 8 -> {tdText(<<"1", "0", "0">>), tdText(<<"-">>),
                 tdText(<<"n", "/", "a">>)}
    [] OTHER -> {tdEmpty}

(* The td cells of a metadata table of n columns. *)
RECURSIVE Tables(_)
Tables(n) ==
  IF n = 0 THEN {<<>>}
  ELSE {Append(t, c) : t \in Tables(n - 1), c \in ColumnChoices(n - 1)}

(* The problem pages: table is what selectorProblemMetadataTable finds     *)
(* (nothing, or the cells selectorProblemMetadataColumn finds under it),   *)
(* title what selectorProblemTitle finds.                                  *)
ProblemPages ==
  {[table |-> tb, title |-> tt] :
     tb \in {<<>>} \cup {<<t>> : t \in UNION {Tables(n) : n \in 0..MaxColumns}},
     tt \in {<<>>, <<El(s_a, <<>>, <<Tx(<<"N", "r", "A", "p">>)>>)>>}}

NoProblemPage == [status |-> "none", table |-> <<>>, title |-> <<>>]

NoFindResult == [set |-> FALSE, p |-> <<>>, err |-> NoErr]

FindResult(p, err) == [set |-> TRUE, p |-> p, err |-> err]

(* Faulty variant of badColumns: the lower limit is off by one. *)
badColumns_offByOne(l) == l < 7 \/ l > 9

(* Line 567 *)
badColumns(l) == l < 8 \/ l > 9

(* Line 556: the problem page is requested. *)
FindCall(id) ==
  /\ fpc = "idle"
  /\ fpc' = "request"
  /\ fid' = id
  /\ freqs' = freqs + 1
  /\ UNCHANGED <<fpage, prob, fresult>>
  /\ UNCHANGED <<tcVars, auxVars>>

(* requestHTML fails. *)
FindFail(f) ==
  /\ fpc = "request"
  /\ fpage' = [NoProblemPage EXCEPT !.status = f.kind]
  /\ fresult' = FindResult(<<>>, Wrap("pbinfo:", NoURL, NoID,
                                      requestHTMLErr(f, ProblemURL(fid))))
  /\ fpc' = "done"
  /\ UNCHANGED <<fid, prob, freqs>>
  /\ UNCHANGED <<tcVars, auxVars>>

(* Lines 561 to 574: the table and its columns are looked up and the       *)
(* parsers run over the columns.                                           *)
FindParse(pg) ==
  /\ fpc = "request"
  /\ fpage' = [status |-> "ok", table |-> pg.table, title |-> pg.title]
  /\ IF pg.table = <<>>
     THEN /\ fresult' = FindResult(<<>>,
               NewErr("pbinfo: FindProblemByID failed to find info table for problem",
                      NoURL, fid))
          /\ fpc' = "done"
          /\ UNCHANGED prob
     ELSE IF badColumns(Len(pg.table[1]))
     THEN /\ fresult' = FindResult(<<>>,
               NewErr("pbinfo: FindProblemByID failed to find info columns for problem",
                      NoURL, fid))
          /\ fpc' = "done"
          /\ UNCHANGED prob
     ELSE /\ prob' = <<runParsers(pg.table[1], 0, NewProblem(fid))>>
          /\ fpc' = "title"
          /\ UNCHANGED fresult
  /\ UNCHANGED <<fid, freqs>>
  /\ UNCHANGED <<tcVars, auxVars>>

(* Lines 576 to 583: the title is looked up and p is returned. *)
FindTitle ==
  /\ fpc = "title"
  /\ IF fpage.title = <<>>
     THEN fresult' = FindResult(<<>>,
               NewErr("pbinfo: FindProblemByID failed to find title for problem",
                      NoURL, fid))
     ELSE fresult' = FindResult(<<[prob[1] EXCEPT !.Name = text(fpage.title[1])]>>,
                                NoErr)
  /\ fpc' = "done"
  /\ UNCHANGED <<fid, fpage, prob, freqs>>
  /\ UNCHANGED <<tcVars, auxVars>>

----------------------------------------------------------------------------
(* Specifications *)

(* Applications of ParseProblemDifficulty and parseMemoryLimit *)

(* The letters of a word, from its first one, that are written in every    *)
(* case and with every diacritic; the rest of it is all small or all       *)
(* capital.                                                                *)
MaxSpelt == 4

(* The inputs of ParseProblemDifficulty: every spelling that lowercases and *)
(* folds to one of the words of the switch, and strings that do not.        *)
DifficultyInputs ==
  LET words == {<<"e", "a", "s", "y">>, <<"u", "s", "o", "a", "r", "a">>,
                <<"u", "s", "o", "r">>, <<"m", "e", "d", "i", "u", "m">>,
                <<"m", "e", "d", "i", "e">>, <<"m", "e", "d", "i", "u">>,
                <<"d", "i", "f", "f", "i", "c", "u", "l", "t">>,
                <<"d", "i", "f", "i", "c", "i", "l", "a">>,
                <<"d", "i", "f", "i", "c", "i", "l">>,
                <<"c", "o", "n", "t", "e", "s", "t">>,
                <<"c", "o", "n", "c", "u", "r", "s">>}
      chars == {UpperChars[k] : k \in 1..Len(UpperChars)}
                 \cup {LowerChars[k] : k \in 1..Len(LowerChars)}
      spelt(c) == {x \in chars : asciiReplacer(ToLower(<<x>>)) = <<c>>}
      capitals(w) == [k \in 1..Len(w) |->
                        UpperChars[CHOOSE j \in 1..Len(LowerChars) : LowerChars[j] = w[k]]]
      RECURSIVE spellings(_, _)
      spellings(w, n) ==
        IF w = <<>> THEN {<<>>}
        ELSE IF n = 0 THEN {w, capitals(w)}
        ELSE {<<x>> \o rest : x \in spelt(Head(w)),
                               rest \in spellings(Tail(w), n - 1)}
  IN UNION {spellings(w, MaxSpelt) : w \in words}
       \cup {Tail(w) : w \in words}
       \cup {Append(w, "a") : w \in words}
       \cup {<<" ">> \o w : w \in words}
       \cup {<<"u", "s-comma", "o", "a", "r", "a-breve">>,
             <<"U", "S-comma", "O", "A", "R", "A-breve">>,
             <<"D", "i", "f", "i", "c", "i", "l", "a-breve">>,
             <<"D", "I", "F", "I", "C", "I", "L", "A-breve">>}
       \cup {<<>>, <<"-">>, <<"g", "r", "e", "a">>, <<"h", "a", "r", "d">>,
             <<"u", "s-cedilla", "o", "r">>, <<"e", "a", "s", "y", "\n">>}

DifficultyApply(input) ==
  /\ pure.fn = "none"
  /\ pure' = [fn |-> "ParseProblemDifficulty", in |-> input, old |-> 0,
              out |-> ParseProblemDifficulty(input)]
  /\ UNCHANGED <<tcVars, findVars, walk, client, registry>>

(* The inputs of parseMemoryLimit: a number, a space or none, a unit. *)
MemoryLimitInputs ==
  {n \o sp \o u :
     n \in {<<"6", "4">>, <<"2", "5", "6">>, <<"8">>, <<"0", ".", "5">>,
            <<"1", ".">>, <<>>, <<"-", "1">>, <<"x">>},
     sp \in {<<>>, <<" ">>},
     u \in {<<>>, <<"B">>, <<"K", "B">>, <<"k", "B">>, <<"K">>, <<"M", "B">>,
            <<"m", "b">>, <<"M">>, <<"M", "i", "B">>, <<"K", "i", "B">>,
            <<"M", "o">>, <<"X", "B">>, <<"M", "B", "s">>,
            <<"M", "B", "p", "s">>, <<"B", "B">>}}

(* parseMemoryLimit(input, &v) where v holds old before the call *)
MemoryLimitApply(input, old) ==
  /\ pure.fn = "none"
  /\ pure' = [fn |-> "parseMemoryLimit", in |-> input, old |-> old,
              out |-> parseMemoryLimit(input, old)]
  /\ UNCHANGED <<tcVars, findVars, walk, client, registry>>

(* The longest content given to normalizeTestCaseContent *)
MaxContent == 4

(* normalizeTestCaseContent of the command: [panicked, str].  The slice    *)
(* expression c[:i] panics for i = -1, what LastIndexByte returns when     *)
(* c[:sizeLimit] has no space.                                             *)
normalizeTestCaseContent(c, sizeLimit) ==
  IF Len(c) <= sizeLimit THEN [panicked |-> FALSE, str |-> c]
  ELSE LET i == LastIndexAny(SubSeq(c, 1, sizeLimit), {" "}) - 1
       IN IF i < 0 THEN [panicked |-> TRUE, str |-> <<>>]
          ELSE [panicked |-> FALSE,
                str |-> SubSeq(c, 1, i) \o
                        <<".", ".", ".", " ", "[", "t", "r", "u", "n", "c", "a",
                          "t", "e", "d", "]">>]

(* normalizeTestCaseContent(c, sizeLimit); old holds sizeLimit *)
NormalizeApply(c, sizeLimit) ==
  /\ pure.fn = "none"
  /\ pure' = [fn |-> "normalizeTestCaseContent", in |-> c, old |-> sizeLimit,
              out |-> normalizeTestCaseContent(c, sizeLimit)]
  /\ UNCHANGED <<tcVars, findVars, walk, client, registry>>

NextParse ==
  \/ \E input \in DifficultyInputs : DifficultyApply(input)
  \/ \E input \in MemoryLimitInputs, old \in {0, 8000000} :
       MemoryLimitApply(input, old)
  \/ \E c \in SeqsUpTo({"a", "b", " "}, MaxContent), sizeLimit \in 0..MaxContent :
       NormalizeApply(c, sizeLimit)

----------------------------------------------------------------------------
(* traverse.Depth on the nodes of a document.  A document is the table of *)
(* the children of its nodes 1..n, in document order; 0 is the nil node.    *)

MaxNodes == 4

(* The documents of up to MaxNodes nodes: every shape of an ordered tree,   *)
(* its nodes numbered level by level.                                       *)
Documents ==
  LET RECURSIVE ascending(_)
      ascending(S) ==
        IF S = {} THEN <<>>
        ELSE LET m == CHOOSE x \in S : \A y \in S : x <= y
             IN <<m>> \o ascending(S \ {m})
      parents(n) == {f \in [2..n -> 1..n] : \A k \in 2..n : f[k] < k}
  IN UNION {{[node \in 1..n |-> ascending({k \in 2..n : par[k] = node})] :
               par \in parents(n)} : n \in 1..MaxNodes}

(* Faulty variant of pushed: the children are pushed first child first. *)
pushed_forward(kids, node) == kids[node]

(* Lines 21 to 23: the nodes the loop appends to the stack for node, from   *)
(* node.LastChild along PrevSibling.                                        *)
pushed(kids, node) ==
  LET LastChild(n) == IF kids[n] = <<>> THEN 0 ELSE kids[n][Len(kids[n])]
      PrevSibling(c) ==
        LET parent == CHOOSE n \in 1..Len(kids) :
                        \E j \in 1..Len(kids[n]) : kids[n][j] = c
            j == CHOOSE j \in 1..Len(kids[parent]) : kids[parent][j] = c
        IN IF j = 1 THEN 0 ELSE kids[parent][j - 1]
      RECURSIVE chain(_)
      chain(next) == IF next = 0 THEN <<>> ELSE <<next>> \o chain(PrevSibling(next))
  IN chain(LastChild(node))

(* Faulty variant of loopBody: a visitor that returns false ends the        *)
(* iteration, not the loop.                                                 *)
loopBody_continues(kids, rest, node, ok) ==
  IF ~ok THEN [pc |-> "loop", stack |-> rest]
  ELSE [pc |-> "loop", stack |-> rest \o pushed(kids, node)]

(* Lines 17 to 23, after node was popped and the visitor returned ok *)
loopBody(kids, rest, node, ok) ==
  IF ~ok THEN [pc |-> "done", stack |-> rest]
  ELSE [pc |-> "loop", stack |-> rest \o pushed(kids, node)]

(* Depth(root, visitor), the visitor returning false on its stopAt-th call  *)
(* (never when stopAt = 0)                                                  *)
DepthCall(kids, root, stopAt) ==
  /\ walk.pc = "idle"
  /\ walk' = [pc |-> "loop", kids |-> kids, root |-> root, stopAt |-> stopAt,
              stack |-> <<root>>, visited |-> <<>>]
  /\ UNCHANGED <<tcVars, findVars, pure, client, registry>>

(* One iteration of the loop *)
DepthIter ==
  /\ walk.pc = "loop"
  /\ Len(walk.stack) > 0
  /\ LET l == Len(walk.stack)
         node == walk.stack[l]
         visited == Append(walk.visited, node)
         after == loopBody(walk.kids, SubSeq(walk.stack, 1, l - 1), node,
                           Len(visited) # walk.stopAt)
     IN walk' = [walk EXCEPT !.visited = visited, !.stack = after.stack,
                             !.pc = after.pc]
  /\ UNCHANGED <<tcVars, findVars, pure, client, registry>>

(* The loop ends on the empty stack. *)
DepthExit ==
  /\ walk.pc = "loop"
  /\ Len(walk.stack) = 0
  /\ walk' = [walk EXCEPT !.pc = "done"]
  /\ UNCHANGED <<tcVars, findVars, pure, client, registry>>

NextDepth ==
  \/ \E kids \in Documents : \E root \in 1..Len(kids), stopAt \in 0..MaxNodes :
       DepthCall(kids, root, stopAt)
  \/ DepthIter
  \/ DepthExit

----------------------------------------------------------------------------
(* Client.request on one Client from several goroutines: clientInit is a   *)
(* sync.Once (done, and the mutex m of its slow path, 0 when free).         *)

MaxGoroutines == 2

(* A Client value, with or without a Client of the caller's *)
NewClient(given) ==
  /\ client.pc = <<>>
  /\ client' = [pc |-> [g \in 1..MaxGoroutines |-> "idle"],
                given |-> given, Client |-> given, done |-> FALSE, m |-> 0,
                assigned |-> 0, seen |-> [g \in 1..MaxGoroutines |-> "none"]]
  /\ UNCHANGED <<tcVars, findVars, pure, walk, registry>>

(* Line 509: a goroutine calls request, for the first time or again. *)
RequestCall(g) ==
  /\ g \in 1..Len(client.pc)
  /\ client.pc[g] \in {"idle", "end"}
  /\ client' = [client EXCEPT !.pc[g] = "do"]
  /\ UNCHANGED <<tcVars, findVars, pure, walk, registry>>

(* Once.Do: done is loaded; when it is set Do returns. *)
OnceDo(g) ==
  /\ g \in 1..Len(client.pc)
  /\ client.pc[g] = "do"
  /\ client' = [client EXCEPT !.pc[g] = IF client.done THEN "use" ELSE "lock"]
  /\ UNCHANGED <<tcVars, findVars, pure, walk, registry>>

(* Faulty variant of mayLock: the mutex excludes nobody. *)
mayLock_always(m) == TRUE

(* Mutex.Lock returns when the mutex is free. *)
mayLock(m) == m = 0

(* Once.doSlow: the mutex is taken and done is read again. *)
OnceLock(g) ==
  /\ g \in 1..Len(client.pc)
  /\ client.pc[g] = "lock"
  /\ mayLock(client.m)
  /\ client' = [client EXCEPT !.m = g,
                              !.pc[g] = IF client.done THEN "unlock" ELSE "f"]
  /\ UNCHANGED <<tcVars, findVars, pure, walk, registry>>

(* Line 511: the function given to Do tests c.Client. *)
InitCheck(g) ==
  /\ g \in 1..Len(client.pc)
  /\ client.pc[g] = "f"
  /\ client' = [client EXCEPT
                  !.pc[g] = IF client.Client = "nil" THEN "assign" ELSE "unlock"]
  /\ UNCHANGED <<tcVars, findVars, pure, walk, registry>>

(* Line 512: c.Client = http.DefaultClient *)
InitAssign(g) ==
  /\ g \in 1..Len(client.pc)
  /\ client.pc[g] = "assign"
  /\ client' = [client EXCEPT !.Client = "default", !.assigned = @ + 1,
                              !.pc[g] = "unlock"]
  /\ UNCHANGED <<tcVars, findVars, pure, walk, registry>>

(* The deferred calls of doSlow: done is stored, the mutex released. *)
OnceUnlock(g) ==
  /\ g \in 1..Len(client.pc)
  /\ client.pc[g] = "unlock"
  /\ client' = [client EXCEPT !.done = TRUE, !.m = 0, !.pc[g] = "use"]
  /\ UNCHANGED <<tcVars, findVars, pure, walk, registry>>

(* Line 516: c.Client.Do(req) reads c.Client. *)
RequestSend(g) ==
  /\ g \in 1..Len(client.pc)
  /\ client.pc[g] = "use"
  /\ client' = [client EXCEPT !.seen[g] = client.Client, !.pc[g] = "end"]
  /\ UNCHANGED <<tcVars, findVars, pure, walk, registry>>

NextClient ==
  \/ \E given \in {"nil", "custom"} : NewClient(given)
  \/ \E g \in 1..MaxGoroutines :
       \/ RequestCall(g)
       \/ OnceDo(g)
       \/ OnceLock(g)
       \/ InitCheck(g)
       \/ InitAssign(g)
       \/ OnceUnlock(g)
       \/ RequestSend(g)

----------------------------------------------------------------------------
(* Package toolchain: the registries.  A map is a function on its keys; a  *)
(* constructor is "nil", "ok" (it returns an implementation) or "fails"    *)
(* (it returns an error).  The host is a Unix one: os.PathSeparator is "/" *)
(* and os.PathListSeparator is ":".                                        *)

(* Faulty variant of isValidImplementationName: the path list separator is *)
(* let through.                                                            *)
isValidImplementationName_noList(name) ==
  ~\E k \in 1..Len(name) : name[k] \in {"/"}

isValidImplementationName(name) ==
  ~\E k \in 1..Len(name) : name[k] \in {"/", ":"}

(* The body of RegisterCompiler and of RegisterDebugger on its map and its  *)
(* name list: whether it panics, and the map and the list after it.         *)
register(impls, names, name, constructor) ==
  IF \/ ~isValidImplementationName(name)
     \/ name \in DOMAIN impls
     \/ constructor = "nil"
  THEN [panicked |-> TRUE, impls |-> impls, names |-> names]
  ELSE [panicked |-> FALSE,
        impls |-> [n \in DOMAIN impls \cup {name} |->
                     IF n = name THEN constructor ELSE impls[n]],
        names |-> Append(names, name)]

RegisterCompiler(name, constructor) ==
  /\ LET r == register(registry.compilers, registry.compilersNames, name, constructor)
     IN registry' = [registry EXCEPT
                       !.compilers = r.impls, !.compilersNames = r.names,
                       !.call = [fn |-> "RegisterCompiler", name |-> name,
                                 constructor |-> constructor],
                       !.panicked = r.panicked, !.found = <<>>]
  /\ UNCHANGED <<tcVars, findVars, pure, walk, client>>

RegisterDebugger(name, constructor) ==
  /\ LET r == register(registry.debuggers, registry.debuggersNames, name, constructor)
     IN registry' = [registry EXCEPT
                       !.debuggers = r.impls, !.debuggersNames = r.names,
                       !.call = [fn |-> "RegisterDebugger", name |-> name,
                                 constructor |-> constructor],
                       !.panicked = r.panicked, !.found = <<>>]
  /\ UNCHANGED <<tcVars, findVars, pure, walk, client>>

(* DetectDebuggers: the loop of line 57 runs over compilersNames; calling   *)
(* the nil function debuggers[name] of a name that is no debugger panics.   *)
DetectDebuggers ==
  /\ LET names == registry.compilersNames
         missing == \E k \in 1..Len(names) : names[k] \notin DOMAIN registry.debuggers
         RECURSIVE found(_)
         found(k) ==
           IF k > Len(names) THEN <<>>
           ELSE IF registry.debuggers[names[k]] = "ok"
           THEN <<names[k]>> \o found(k + 1)
           ELSE found(k + 1)
     IN registry' = [registry EXCEPT
                       !.call = [fn |-> "DetectDebuggers", name |-> <<>>,
                                 constructor |-> "nil"],
                       !.panicked = missing,
                       !.found = IF missing THEN <<>> ELSE found(1)]
  /\ UNCHANGED <<tcVars, findVars, pure, walk, client>>

NextToolchain ==
  \/ \E name \in {<<"g", "+", "+">>, <<"g", "d", "b">>, <<"a", "/", "b">>,
                  <<"a", ":", "b">>},
        constructor \in {"nil", "ok", "fails"} :
       \/ RegisterCompiler(name, constructor)
       \/ RegisterDebugger(name, constructor)
  \/ DetectDebuggers

----------------------------------------------------------------------------
vars == <<tcVars, findVars, auxVars>>

(* Before the calls *)
Init ==
  /\ pc = "idle"
  /\ problemID = NoID
  /\ ctxDone = FALSE
  /\ listing = NoAnswer
  /\ testCases = <<>>
  /\ urls = <<>>
  /\ task = <<>>
  /\ gerr = NoErr
  /\ gctxDone = FALSE
  /\ fails = [first |-> NoErr, cancelled |-> FALSE]
  /\ phaseA = NoResult
  /\ page = NoAnswer
  /\ phaseB = NoResult
  /\ result = NoResult
  /\ reqs = [listing |-> 0, page |-> 0, chunk |-> <<>>]
  /\ fpc = "idle"
  /\ fid = NoID
  /\ fpage = NoProblemPage
  /\ prob = <<>>
  /\ fresult = NoFindResult
  /\ freqs = 0
  /\ pure = [fn |-> "none", in |-> <<>>, old |-> 0, out |-> 0]
  /\ walk = [pc |-> "idle", kids |-> <<>>, root |-> 0, stopAt |-> 0,
             stack |-> <<>>, visited |-> <<>>]
  /\ client = [pc |-> <<>>, given |-> "nil", Client |-> "nil", done |-> FALSE,
               m |-> 0, assigned |-> 0, seen |-> <<>>]
  /\ registry = [compilers |-> <<>>, compilersNames |-> <<>>,
                 debuggers |-> <<>>, debuggersNames |-> <<>>,
                 call |-> [fn |-> "none", name |-> <<>>, constructor |-> "nil"],
                 panicked |-> FALSE, found |-> <<>>]

(* GetProblemTestCases *)

Next ==
  \/ \E id \in ProblemIDs : Call(id)
  \/ \E f \in FailedFetches : ListingFail(f)
  \/ \E rows \in Listings : ListingOK(rows)
  \/ \E i \in 1..Len(urls) : TaskStart(i)
  \/ \E i \in 1..Len(urls), f \in FailedFetches : TaskFail(i, f)
  \/ \E i \in 1..Len(urls) : TaskOK(i)
  \/ Wait
  \/ AfterFull
  \/ \E f \in FailedFetches : PageFail(f)
  \/ \E matches \in ExampleLists : PageOK(matches)
  \/ CtxCancel

Spec == Init /\ [][Next]_vars

(* FindProblemByID *)
NextFind ==
  \/ \E id \in ProblemIDs : FindCall(id)
  \/ \E f \in FailedFetches : FindFail(f)
  \/ \E pg \in ProblemPages : FindParse(pg)
  \/ FindTitle

SpecFind == Init /\ [][NextFind]_vars

(* One call on a Client: of GetProblemTestCases or of FindProblemByID *)
NextRequests ==
  \/ \E id \in ProblemIDs : fpc = "idle" /\ Call(id)
  \/ \E f \in FailedFetches : ListingFail(f)
  \/ \E rows \in Listings : ListingOK(rows)
  \/ \E i \in 1..Len(urls) : TaskStart(i)
  \/ \E i \in 1..Len(urls), f \in FailedFetches : TaskFail(i, f)
  \/ \E i \in 1..Len(urls) : TaskOK(i)
  \/ Wait
  \/ AfterFull
  \/ \E f \in FailedFetches : PageFail(f)
  \/ \E matches \in ExampleLists : PageOK(matches)
  \/ CtxCancel
  \/ \E id \in ProblemIDs : pc = "idle" /\ FindCall(id)
  \/ \E f \in FailedFetches : FindFail(f)
  \/ \E pg \in ProblemPages : FindParse(pg)
  \/ FindTitle

SpecRequests == Init /\ [][NextRequests]_vars

(* traverse.Depth on its own: the goroutine that runs it keeps running *)
SpecDepth == Init /\ [][NextDepth]_vars /\ WF_vars(NextDepth)

(* Client.request on its own *)
SpecClient == Init /\ [][NextClient]_vars

(* Package toolchain on its own *)
SpecToolchain == Init /\ [][NextToolchain]_vars

(* The parsing functions on their own *)
SpecParse == Init /\ [][NextParse]_vars

----------------------------------------------------------------------------
(* Claims about GetProblemTestCases, checked under Spec *)

(* C1: when the listing request of the first phase fails (transport error, *)
(* cancellation, status other than 200, body that cannot be parsed), the   *)
(* call returns a nil slice and a non-nil error, and the problem page of   *)
(* the second phase is never requested.                                    *)
C1_ListingFailureIsHard ==
  listing.status \in {"transport", "status", "body"} =>
    /\ reqs.page = 0
    /\ pc \in {"A_return", "done"}
    /\ (pc = "done" =>
          /\ result.set
          /\ result.cases = NilSlice
          /\ result.err # NoErr)

C1_Witness ==
  /\ pc = "done"
  /\ listing.status = "body"
  /\ result.err # NoErr

(* C2: with at least one row in the listing, when one of the chunk         *)
(* downloads fails the call returns an error and no test cases, and the    *)
(* problem page of the second phase is never requested, whatever the other *)
(* downloads did.                                                          *)
C2_ChunkFailureIsHard ==
  (\E i \in 1..Len(task) : task[i] = "failed") =>
    /\ Len(listing.nodes) >= 1
    /\ reqs.page = 0
    /\ pc \in {"A_wait", "A_return", "done"}
    /\ (pc = "done" =>
          /\ result.set
          /\ result.cases = NilSlice
          /\ result.err # NoErr)

C2_Witness ==
  /\ pc = "done"
  /\ \E i, j \in 1..Len(task) :
       /\ task[i] = "failed"
       /\ task[j] = "done"
       /\ urls[i].href = InHref
  /\ result.err # NoErr

(* C3 as stated: after a listing without rows the first phase yields       *)
(* (nil, nil), no chunk download is started, and the call returns exactly  *)
(* what getProblemExampleTestCases returned.                               *)
C3_ReturnsExactlyPhaseB ==
  (pc = "done" /\ listing.status = "ok" /\ Len(listing.nodes) = 0) =>
    /\ phaseA = Result(NilSlice, NoErr)
    /\ reqs.chunk = <<>>
    /\ result = phaseB

(* C3 as amended: after a listing without rows the first phase yields      *)
(* (nil, nil), no chunk download is started, and the call returns the test *)
(* cases of getProblemExampleTestCases unchanged with a nil error, or,     *)
(* when that failed, a nil slice with its error wrapped in a "pbinfo:"     *)
(* frame.                                                                  *)
C3_ReturnsPhaseBWrapped ==
  (pc = "done" /\ listing.status = "ok" /\ Len(listing.nodes) = 0) =>
    /\ phaseA = Result(NilSlice, NoErr)
    /\ reqs.chunk = <<>>
    /\ task = <<>>
    /\ phaseB.set
    /\ result.set
    /\ result.cases = phaseB.cases
    /\ (phaseB.err = NoErr => result.err = NoErr)
    /\ (phaseB.err # NoErr =>
          /\ result.cases = NilSlice
          /\ result.err # NoErr
          /\ Head(result.err).msg = "pbinfo:"
          /\ Tail(result.err) = phaseB.err)

C3_Witness ==
  /\ pc = "done"
  /\ listing.status = "ok"
  /\ Len(listing.nodes) = 0
  /\ Len(result.cases.elems) = 1
  /\ result.cases.elems[1].IsExample

(* C4: once every chunk download has completed without error, a row whose  *)
(* input or expected output is still unset makes the first phase return    *)
(* nothing (no subset of the rows) and the call go on to the examples;     *)
(* every test case the call returns has its Input and its Output set.      *)
C4_IncompleteRowsDiscarded ==
  /\ (/\ phaseA.set
      /\ listing.status = "ok"
      /\ gerr = NoErr
      /\ \E i \in 1..Len(testCases) :
           testCases[i].Input.isNil \/ testCases[i].Output.isNil)
     => /\ phaseA = Result(NilSlice, NoErr)
        /\ (pc = "done" => reqs.page = 1 /\ phaseB.set)
  /\ result.set =>
       \A i \in 1..Len(result.cases.elems) :
          /\ ~result.cases.elems[i].Input.isNil
          /\ ~result.cases.elems[i].Output.isNil

C4_Witness ==
  /\ pc = "done"
  /\ Len(listing.nodes) = 2
  /\ urls # <<>>
  /\ \A i \in 1..Len(task) : task[i] = "done"
  /\ ~testCases[1].Input.isNil /\ ~testCases[1].Output.isNil
  /\ testCases[2].Output.isNil
  /\ reqs.page = 1
  /\ result.err = NoErr

(* C5: the problem page of the second phase is requested only after the    *)
(* first phase returned no cases and no error; when the first phase        *)
(* returns a non-empty set, the call returns that set unchanged and never  *)
(* requests the problem page.                                              *)
C5_PhaseBOnlyAfterEmptyPhaseA ==
  /\ (reqs.page > 0 \/ pc = "B_request" \/ phaseB.set \/ page.status # "none") =>
       /\ phaseA.set
       /\ phaseA.err = NoErr
       /\ Len(phaseA.cases.elems) = 0
  /\ (phaseA.set /\ Len(phaseA.cases.elems) > 0) =>
       /\ phaseA.cases.elems = testCases
       /\ \A i \in 1..Len(testCases) :
            ~testCases[i].Input.isNil /\ ~testCases[i].Output.isNil
       /\ reqs.page = 0
       /\ (pc = "done" => result = Result(phaseA.cases, NoErr))

C5_Witness ==
  /\ pc = "done"
  /\ Len(result.cases.elems) = 2
  /\ \E i \in 1..Len(task) : task[i] = "done"
  /\ reqs.page = 0

(* C6: for 2k p + pre matches the second phase returns k test cases, case  *)
(* i with the text of match 2i as Input and the text of match 2i+1 as      *)
(* Output (counting from 0), IsExample set and Score 0; for no match it    *)
(* returns an empty list and no error.  The text of a match is the text it *)
(* shows: its text nodes, trimmed, in document order.                      *)
C6_ExamplesArePaired ==
  LET TextOfNode(n) == IF n.Type = "TextNode" THEN TrimSpace(n.Data) ELSE <<>>
      ShownText(m) ==
        LET nodes == Depth(m, 0)
        IN Concat([i \in 1..Len(nodes) |-> TextOfNode(nodes[i])])
      k == Len(page.nodes) \div 2
  IN (phaseB.set /\ page.status = "ok" /\ Len(page.nodes) % 2 = 0) =>
       /\ phaseB.err = NoErr
       /\ ~phaseB.cases.isNil
       /\ Len(phaseB.cases.elems) = k
       /\ \A i \in 1..k :
            /\ phaseB.cases.elems[i].Input = Slice(ShownText(page.nodes[2 * i - 1]))
            /\ phaseB.cases.elems[i].Output = Slice(ShownText(page.nodes[2 * i]))
            /\ phaseB.cases.elems[i].IsExample
            /\ phaseB.cases.elems[i].Score = 0

(* C7: for an odd number of p + pre matches the second phase returns an    *)
(* error that carries the problem identifier and no test case at all, and  *)
(* so does the call.                                                       *)
C7_OddExamplesAreAnError ==
  (phaseB.set /\ page.status = "ok" /\ Len(page.nodes) % 2 = 1) =>
    /\ phaseB.cases = NilSlice
    /\ phaseB.err # NoErr
    /\ \E i \in 1..Len(phaseB.err) : phaseB.err[i].id = problemID
    /\ result.cases = NilSlice
    /\ result.err # NoErr

C7_Witness ==
  /\ pc = "done"
  /\ page.status = "ok"
  /\ Len(page.nodes) = 3
  /\ result.err # NoErr

----------------------------------------------------------------------------
(* Claims about FindProblemByID, checked under SpecFind *)

(* C8: when the page request fails, the metadata table is missing, it has  *)
(* fewer than 8 or more than 9 cells, or the title is missing, the call    *)
(* returns a non-nil error and a nil Problem, also when the parsers have   *)
(* already filled p.                                                       *)
C8_StructuralFailureReturnsNil ==
  (/\ fresult.set
   /\ \/ fpage.status # "ok"
      \/ fpage.table = <<>>
      \/ Len(fpage.table[1]) < 8
      \/ Len(fpage.table[1]) > 9
      \/ fpage.title = <<>>)
  => /\ fresult.err # NoErr
     /\ fresult.p = <<>>

C8_Witness ==
  /\ fresult.set
  /\ fpage.status = "ok"
  /\ fpage.title = <<>>
  /\ prob # <<>>
  /\ prob[1].Publisher # <<>>
  /\ fresult.p = <<>>
  /\ fresult.err # NoErr

(* C9: the Problem FindProblemByID returns, and p while the parsers and    *)
(* the title step work on it, has the ID the caller passed.                *)
C9_IDIsTheCallersID ==
  /\ prob # <<>> => prob[1].ID = fid
  /\ (fresult.set /\ fresult.p # <<>>) => fresult.p[1].ID = fid

C9_Witness ==
  /\ fresult.set
  /\ fresult.p # <<>>
  /\ Len(fpage.table[1]) = 9
  /\ fresult.p[1].ID = 1629

C11_StandardStreamsAreDashes ==
  LET keyboard == tdSpan(s_tastatura \o <<" ", "/", " ">> \o s_ecran)
  IN (/\ fresult.set
      /\ fresult.p # <<>>
      /\ fpage.table[1][3] = keyboard)
     => /\ fresult.p[1].Input = <<"-">>
        /\ fresult.p[1].Output = <<"-">>

(* C12: for a problem whose input/output cell names the keyboard and the   *)
(* screen FindProblemByID returns Input = "" and Output = "", so that      *)
(* InputFromStdin and OutputToStdout are both true.                        *)
C12_StandardStreamsAreEmpty ==
  LET keyboard == tdSpan(s_tastatura \o <<" ", "/", " ">> \o s_ecran)
  IN (/\ fresult.set
      /\ fresult.p # <<>>
      /\ fpage.table[1][3] = keyboard)
     => /\ fresult.p[1].Input = <<>>
        /\ fresult.p[1].Output = <<>>

(* C13: ParseProblemDifficulty maps every word of its table (easy, usoara,  *)
(* usor; medium, medie, mediu; difficult, dificila, dificil; contest,       *)
(* concurs), written with or without the Romanian diacritics and in any     *)
(* letter case, to the value of its row, and every other string to Unknown. *)
C13_DifficultySynonyms ==
  LET table ==
        {<<<<"e", "a", "s", "y">>, Easy>>,
         <<<<"u", "s", "o", "a", "r", "a">>, Easy>>,
         <<<<"u", "s", "o", "r">>, Easy>>,
         <<<<"m", "e", "d", "i", "u", "m">>, Medium>>,
         <<<<"m", "e", "d", "i", "e">>, Medium>>,
         <<<<"m", "e", "d", "i", "u">>, Medium>>,
         <<<<"d", "i", "f", "f", "i", "c", "u", "l", "t">>, Difficult>>,
         <<<<"d", "i", "f", "i", "c", "i", "l", "a">>, Difficult>>,
         <<<<"d", "i", "f", "i", "c", "i", "l">>, Difficult>>,
         <<<<"c", "o", "n", "t", "e", "s", "t">>, Contest>>,
         <<<<"c", "o", "n", "c", "u", "r", "s">>, Contest>>}
      capital(c) == UpperChars[CHOOSE k \in 1..Len(LowerChars) : LowerChars[k] = c]
      marked(c) == CASE c = "a" -> {"a-breve", "a-circ"}
                     [] c = "i" -> {"i-circ"}
                     [] c = "s" -> {"s-comma"}
                     [] c = "t" -> {"t-comma"}
                     [] OTHER -> {}
      forms(c) == {c, capital(c)} \cup marked(c) \cup {capital(m) : m \in marked(c)}
      written(s, w) == /\ Len(s) = Len(w)
                       /\ \A k \in 1..Len(w) : s[k] \in forms(w[k])
      rows == {e \in table : written(pure.in, e[1])}
  IN pure.fn = "ParseProblemDifficulty"
     => IF rows = {} THEN pure.out = Unknown
        ELSE \A e \in rows : pure.out = e[2]

C13_Witness ==
  /\ pure.fn = "ParseProblemDifficulty"
  /\ pure.in = <<"U", "S-comma", "O", "A", "R", "A-breve">>
  /\ pure.out = Easy

(* C14: parseMemoryLimit takes the unit as a power of ten ("64 MB" gives   *)
(* 64000000, "256 MB" gives 256000000), and an input that does not parse   *)
(* leaves the variable at the value it had.                                *)
C14_MemoryLimitIsDecimal ==
  LET amounts == {<<<<"6", "4">>, 64>>, <<<<"2", "5", "6">>, 256>>, <<<<"8">>, 8>>}
      mega == {<<"M", "B">>, <<"m", "b">>, <<"M">>}
      kilo == {<<"K", "B">>, <<"k", "B">>, <<"K">>}
      noNumber == {<<>>, <<"-", "1">>, <<"x">>}
      noUnit == {<<"M", "o">>, <<"X", "B">>, <<"M", "B", "s">>,
                 <<"M", "B", "p", "s">>, <<"B", "B">>}
      spaces == {<<>>, <<" ">>}
      unparsable ==
        \/ \E n \in noNumber, sp \in spaces, u \in mega \cup kilo \cup noUnit :
             pure.in = n \o sp \o u
        \/ \E a \in amounts, sp \in spaces, u \in noUnit :
             pure.in = a[1] \o sp \o u
  IN pure.fn = "parseMemoryLimit"
     => /\ \A a \in amounts, sp \in spaces :
             /\ \A u \in mega : pure.in = a[1] \o sp \o u
                                  => pure.out = a[2] * 1000000
             /\ \A u \in kilo : pure.in = a[1] \o sp \o u
                                  => pure.out = a[2] * 1000
        /\ unparsable => pure.out = pure.old

C14_Witness ==
  /\ pure.fn = "parseMemoryLimit"
  /\ pure.in = <<"2", "5", "6", " ", "M", "B">>
  /\ pure.old = 8000000
  /\ pure.out = 256000000

(* C15: the time limit cell is read as seconds from its first word: a cell *)
(* showing "0.1 s" gives MaxTime = 100ms (in nanoseconds), and a cell      *)
(* whose first word is no number leaves MaxTime zero.                      *)
C15_TimeLimitInSeconds ==
  (/\ fresult.set
   /\ fresult.p # <<>>)
  => /\ fpage.table[1][4] = tdText(<<"0", ".", "1", " ", "s">>)
          => fresult.p[1].MaxTime = 100000000
     /\ fpage.table[1][4] = tdText(<<"f", "a", "s", "t">>)
          => fresult.p[1].MaxTime = 0

(* C16: with a visitor that always returns true Depth terminates, and has  *)
(* then called the visitor on exactly the nodes of the subtree of root,    *)
(* each once, parents before children and siblings left to right; no node  *)
(* outside the subtree is ever visited.                                    *)
C16_DepthIsPreOrder ==
  LET RECURSIVE pre(_), preAll(_)
      pre(n) == <<n>> \o preAll(walk.kids[n])
      preAll(ks) == IF ks = <<>> THEN <<>> ELSE pre(Head(ks)) \o preAll(Tail(ks))
      order == pre(walk.root)
      safe == (walk.pc # "idle" /\ walk.stopAt = 0)
                => /\ Len(walk.visited) <= Len(order)
                   /\ walk.visited = SubSeq(order, 1, Len(walk.visited))
                   /\ walk.pc = "done" => walk.visited = order
  IN /\ []safe
     /\ [](walk.pc = "loop" => <>(walk.pc = "done"))

C16_Witness ==
  /\ walk.pc = "done"
  /\ walk.stopAt = 0
  /\ walk.kids = <<<<2, 3>>, <<4>>, <<>>, <<>>>>
  /\ walk.root = 1
  /\ walk.visited = <<1, 2, 4, 3>>

(* C17: when the visitor returns false on its k-th call, Depth calls it    *)
(* exactly k times: on the first k nodes in pre-order, and on none after.  *)
C17_DepthStopsAtFalse ==
  LET RECURSIVE pre(_), preAll(_)
      pre(n) == <<n>> \o preAll(walk.kids[n])
      preAll(ks) == IF ks = <<>> THEN <<>> ELSE pre(Head(ks)) \o preAll(Tail(ks))
      order == pre(walk.root)
      k == walk.stopAt
  IN (walk.pc # "idle" /\ k > 0 /\ k <= Len(order))
     => /\ Len(walk.visited) <= k
        /\ walk.pc = "done" => walk.visited = SubSeq(order, 1, k)

C17_Witness ==
  /\ walk.pc = "done"
  /\ walk.stopAt = 2
  /\ walk.kids = <<<<2, 3>>, <<4>>, <<>>, <<>>>>
  /\ walk.root = 1
  /\ walk.visited = <<1, 2>>
  /\ walk.stack = <<3>>

(* C18: the tasks of the first phase run on one context derived from the   *)
(* caller's; the first task that fails cancels it for the others, and the  *)
(* error the phase returns is the error of that first task, wrapped with   *)
(* the problem id: never the cancellation error of a task that was         *)
(* cancelled because of it.                                                *)
C18_FirstFailureIsReported ==
  LET failed == \E i \in 1..Len(task) : task[i] = "failed"
  IN /\ failed => /\ gctxDone
                  /\ fails.first # NoErr
                  /\ ~ctxDone => fails.first[Len(fails.first)].msg # "context canceled"
     /\ fails.cancelled => failed
     /\ (phaseA.set /\ failed)
          => phaseA.err =
               Wrap("failed to retrieve test cases for problem with ID", NoURL,
                    problemID, fails.first)

C18_Witness ==
  /\ pc = "done"
  /\ ~ctxDone
  /\ fails.cancelled
  /\ \E i, j \in 1..Len(task) : i # j /\ task[i] = "failed" /\ task[j] = "failed"
  /\ result.err # NoErr
  /\ result.err[Len(result.err)].msg = "network"

(* C19: testCases has one element per listing row before any task starts   *)
(* and keeps that length; every url belongs to one row and one side, no    *)
(* two urls to the same; a task writes what it downloaded to that field    *)
(* and to no other; so whatever the order of the tasks, the list the first *)
(* phase returns has for row i, in document order, the inline content or   *)
(* the download of that row's own cells.                                   *)
C19_RowsKeepTheirPlace ==
  LET rows == listing.nodes
      col(inp) == IF inp THEN 3 ELSE 4
      has(r, inp) == Len(rows[r]) >= col(inp)
      inline(r, inp) == childText(rows[r][col(inp)], selectorTextArea)
      link(r, inp) == childAttr(rows[r][col(inp)], selectorAnchor, "href")
      taskOf(r, inp) ==
        {t \in 1..Len(urls) : urls[t].index = r - 1 /\ urls[t].input = inp}
      field(c, inp) == IF inp THEN c.Input ELSE c.Output
      expected(r, inp, all) ==
        IF ~has(r, inp) THEN NilSlice
        ELSE IF inline(r, inp) # <<>> THEN Slice(inline(r, inp))
        ELSE IF all \/ \E t \in taskOf(r, inp) : task[t] = "done"
        THEN Slice(ChunkBody(link(r, inp)))
        ELSE NilSlice
  IN (listing.status = "ok" /\ Len(rows) > 0)
     => /\ Len(testCases) = Len(rows)
        /\ Len(task) = Len(urls)
        /\ \A t \in 1..Len(urls) : urls[t].index \in 0..(Len(rows) - 1)
        /\ \A r \in 1..Len(rows), inp \in BOOLEAN :
             /\ Cardinality(taskOf(r, inp))
                  = IF has(r, inp) /\ inline(r, inp) = <<>> THEN 1 ELSE 0
             /\ \A t \in taskOf(r, inp) : urls[t].href = link(r, inp)
             /\ field(testCases[r], inp) = expected(r, inp, FALSE)
        /\ (phaseA.set /\ ~phaseA.cases.isNil)
             => /\ Len(phaseA.cases.elems) = Len(rows)
                /\ \A r \in 1..Len(rows), inp \in BOOLEAN :
                     field(phaseA.cases.elems[r], inp) = expected(r, inp, TRUE)

C19_Witness ==
  /\ pc = "A_wait"
  /\ Len(listing.nodes) = 2
  /\ Len(urls) = 3
  /\ urls[3].index = 1
  /\ task[3] = "done"
  /\ task[1] = "inflight"
  /\ testCases[1].Input.isNil
  /\ testCases[2].Input = Slice(ChunkBody(InHref))

(* C20: whatever the number and the interleaving of the calls of request   *)
(* on one Client, http.DefaultClient is assigned at most once, a Client    *)
(* given by the caller is never replaced, and every request is sent        *)
(* through a non-nil Client.                                               *)
C20_ClientInitOnce ==
  /\ client.assigned <= 1
  /\ client.given = "custom" => (client.Client = "custom" /\ client.assigned = 0)
  /\ \A g \in 1..Len(client.pc) :
       /\ client.seen[g] # "nil"
       /\ client.pc[g] = "use" => client.Client # "nil"
       /\ client.seen[g] # "none"
            => client.seen[g] = IF client.given = "custom" THEN "custom"
                                ELSE "default"

C20_Witness ==
  /\ client.pc # <<>>
  /\ client.given = "nil"
  /\ client.assigned = 1
  /\ \A g \in 1..Len(client.pc) :
       client.pc[g] = "end" /\ client.seen[g] = "default"

(* C21: nothing is retried.  A call of FindProblemByID sends exactly one   *)
(* request; a call of GetProblemTestCases sends at most one listing        *)
(* request, at most one request for each queued url and at most one        *)
(* problem page request, whether the requests succeed or fail.             *)
C21_NoRetry ==
  /\ freqs = IF fpc = "idle" THEN 0 ELSE 1
  /\ reqs.listing = IF pc = "idle" THEN 0 ELSE 1
  /\ reqs.page <= 1
  /\ reqs.page = 1 => pc \in {"B_request", "done"}
  /\ Len(reqs.chunk) = Len(urls)
  /\ \A i \in 1..Len(urls) :
       reqs.chunk[i] = IF task[i] = "new" \/ ~ValidHref(urls[i].href) THEN 0 ELSE 1

C21_Witness ==
  /\ pc = "done"
  /\ result.err # NoErr
  /\ reqs.listing = 1
  /\ reqs.page = 0
  /\ \E i, j \in 1..Len(task) :
       /\ task[i] = "failed" /\ reqs.chunk[i] = 1
       /\ task[j] = "done" /\ reqs.chunk[j] = 1

(* C22: RegisterCompiler and RegisterDebugger panic, and leave their map   *)
(* and name list as they were, when the name is registered already, when   *)
(* the constructor is nil and when the name has a "/" or a ":"; otherwise  *)
(* the name is added once, at the end.  So the name list never has a name  *)
(* twice and holds exactly the keys of the map.                            *)
C22_RegistryIsConsistent ==
  [][LET distinct(names) ==
           \A j, k \in 1..Len(names) : names[j] = names[k] => j = k
         keys(names) == {names[k] : k \in 1..Len(names)}
         step(impls, names, implsAfter, namesAfter) ==
           LET name == registry'.call.name
               refused == \/ name \in DOMAIN impls
                          \/ registry'.call.constructor = "nil"
                          \/ \E k \in 1..Len(name) : name[k] = "/" \/ name[k] = ":"
           IN IF refused
              THEN registry'.panicked /\ implsAfter = impls /\ namesAfter = names
              ELSE /\ ~registry'.panicked
                   /\ namesAfter = Append(names, name)
                   /\ DOMAIN implsAfter = DOMAIN impls \cup {name}
                   /\ implsAfter[name] = registry'.call.constructor
                   /\ \A n \in DOMAIN impls : implsAfter[n] = impls[n]
         registration ==
           /\ registry'.call.fn = "RegisterCompiler"
                => /\ step(registry.compilers, registry.compilersNames,
                           registry'.compilers, registry'.compilersNames)
                   /\ registry'.debuggers = registry.debuggers
                   /\ registry'.debuggersNames = registry.debuggersNames
           /\ registry'.call.fn = "RegisterDebugger"
                => /\ step(registry.debuggers, registry.debuggersNames,
                           registry'.debuggers, registry'.debuggersNames)
                   /\ registry'.compilers = registry.compilers
                   /\ registry'.compilersNames = registry.compilersNames
     IN /\ registration
        /\ distinct(registry'.compilersNames)
        /\ distinct(registry'.debuggersNames)
        /\ keys(registry'.compilersNames) = DOMAIN registry'.compilers
        /\ keys(registry'.debuggersNames) = DOMAIN registry'.debuggers]_vars

C22_Witness ==
  /\ registry.compilersNames = <<<<"g", "d", "b">>, <<"g", "+", "+">>>>
  /\ registry.debuggersNames = <<<<"g", "d", "b">>>>
  /\ registry.call = [fn |-> "RegisterCompiler", name |-> <<"g", "+", "+">>,
                      constructor |-> "ok"]
  /\ registry.panicked

(* C23: DetectDebuggers returns one Debugger for each registered debugger  *)
(* whose constructor succeeds, in the order the debuggers were registered, *)
(* whatever compilers are registered, and does not panic.                  *)
C23_DetectsRegisteredDebuggers ==
  LET names == registry.debuggersNames
      RECURSIVE working(_)
      working(k) ==
        IF k > Len(names) THEN <<>>
        ELSE IF registry.debuggers[names[k]] = "ok"
        THEN <<names[k]>> \o working(k + 1)
        ELSE working(k + 1)
  IN registry.call.fn = "DetectDebuggers"
     => /\ ~registry.panicked
        /\ registry.found = working(1)

(* C24: normalizeTestCaseContent returns a content of at most sizeLimit    *)
(* bytes as it is; of a longer one, with or without a space in its first   *)
(* sizeLimit bytes, it returns a prefix of at most sizeLimit bytes that     *)
(* ends where a word ends, followed by "... [truncated]".                  *)
C24_TruncatesAtWordBoundary ==
  LET c == pure.in
      limit == pure.old
      marker == <<".", ".", ".", " ", "[", "t", "r", "u", "n", "c", "a", "t",
                  "e", "d", "]">>
      wordEnds(k) == k = 0 \/ c[k + 1] = " " \/ c[k] = " "
  IN pure.fn = "normalizeTestCaseContent"
     => /\ ~pure.out.panicked
        /\ IF Len(c) <= limit THEN pure.out.str = c
           ELSE \E k \in 0..limit :
                  /\ wordEnds(k)
                  /\ pure.out.str = SubSeq(c, 1, k) \o marker

(* C25: a score cell that shows nothing, "-" or something that is no       *)
(* integer leaves Problem.Score nil, so that a score of 0 is told from a   *)
(* missing score.                                                          *)
C25_MalformedScoreIsAbsent ==
  (/\ fresult.set
   /\ fresult.p # <<>>
   /\ Len(fpage.table[1]) = 9
   /\ fpage.table[1][9] \in {tdText(<<"-">>), tdText(<<"n", "/", "a">>)})
  => fresult.p[1].Score.isNil

(* C26: the parsers run only on a table of 8 or 9 cells, entry i of the    *)
(* table of parsers on cell i for every cell, so no entry outside 0..8 is  *)
(* asked for; with 8 cells the score parser does not run and Score stays   *)
(* nil.                                                                    *)
C26_ParserPerColumn ==
  LET c == fpage.table[1]
      p0 == NewProblem(fid)
      p8 == parserDifficulty(c[8],
              parserAuthors(c[7],
                parserSource(c[6],
                  parserMemoryLimits(c[5],
                    parserTimeLimit(c[4],
                      parserInputOutput(c[3],
                        parserGrade(c[2],
                          parserPublisher(c[1], p0))))))))
  IN prob # <<>>
     => /\ fpage.table # <<>>
        /\ Len(c) \in {8, 9}
        /\ Len(c) = 8 => (prob[1] = p8 /\ prob[1].Score.isNil)
        /\ Len(c) = 9 => (prob[1] = parserScore(c[9], p8) /\ ~prob[1].Score.isNil)

C26_Witness ==
  /\ fresult.set
  /\ fresult.err = NoErr
  /\ fresult.p # <<>>
  /\ Len(fpage.table[1]) = 8
  /\ fresult.p[1].Score.isNil
  /\ fresult.p[1].Publisher # <<>>

(* C27: a download is queued only for an input or output cell that holds   *)
(* a link; a cell with inline content is stored at once and queues         *)
(* nothing; a cell with neither queues nothing and its side of the row     *)
(* stays nil.                                                              *)
C27_OnlyLinksAreQueued ==
  LET rows == listing.nodes
      col(inp) == IF inp THEN 3 ELSE 4
      field(c, inp) == IF inp THEN c.Input ELSE c.Output
      queued(r, inp) ==
        \E t \in 1..Len(urls) : urls[t].index = r - 1 /\ urls[t].input = inp
  IN (listing.status = "ok" /\ Len(testCases) = Len(rows))
     => \A r \in 1..Len(rows), inp \in BOOLEAN :
          Len(rows[r]) >= col(inp)
          => LET cell == rows[r][col(inp)]
                 linked == MatchFirst(cell, selectorAnchor) # <<>>
                 inline == MatchFirst(cell, selectorTextArea) # <<>>
             IN /\ queued(r, inp) => linked
                /\ inline => (~queued(r, inp) /\ ~field(testCases[r], inp).isNil)
                /\ (~inline /\ ~linked)
                     => (~queued(r, inp) /\ field(testCases[r], inp).isNil)

(* C28: text(n) is the concatenation, in document order, of the trimmed    *)
(* contents of the text nodes under n, and has nothing of the other nodes: *)
(* no tag name.  Seen on the problem's Name, which is text of the title    *)
(* node.                                                                   *)
C28_TextOfTextNodes ==
  LET RECURSIVE shown(_), shownAll(_)
      shown(n) == IF n.Type = "TextNode" THEN TrimSpace(n.Data)
                  ELSE shownAll(n.Kids)
      shownAll(ks) == IF ks = <<>> THEN <<>>
                      ELSE shown(Head(ks)) \o shownAll(Tail(ks))
  IN (fresult.set /\ fresult.p # <<>>)
     => fresult.p[1].Name = shown(fpage.title[1])

(* C29: the first phase, and so GetProblemTestCases, returns only when     *)
(* every task it started has returned: after a success, after the failure  *)
(* of a task and after the cancellation of the caller's context alike.      *)
(* From then on no task runs and testCases, which the returned slice        *)
(* shares, is not written.                                                  *)
C29_ReturnsAfterAllTasks ==
  [][/\ phaseA'.set
          => \A i \in 1..Len(task') : task'[i] \in {"done", "failed"}
     /\ result'.set => phaseA'.set
     /\ phaseA.set => (testCases' = testCases /\ task' = task)
     /\ (result.set /\ ~result.cases.isNil /\ Len(testCases) > 0)
          => result.cases = Slice(testCases)]_vars

C29_Witness ==
  /\ pc = "done"
  /\ ctxDone
  /\ result.set
  /\ \E i, j \in 1..Len(task) : task[i] = "failed" /\ task[j] = "done"
  /\ fails.first[Len(fails.first)].msg = "context canceled"

====
